---- MODULE Spec2Model ----
(***************************************************************************)
(* A model of acpi/src/sdt.rs: the common header of the ACPI System        *)
(* Description Tables (SdtHeader), its validator and text accessors, the   *)
(* revision-gated field ExtendedField and the bootstrap routine            *)
(* peek_at_sdt_header.                                                     *)
(*                                                                         *)
(* Memory is modelled at the byte level: a table is a sequence of bytes    *)
(* (index 1 of the sequence is offset 0 of the table), and the header's    *)
(* fields are read from the offsets the packed repr(C) struct gives them.  *)
(***************************************************************************)
EXTENDS Integers, Sequences, FiniteSets, TLC

\* ------------------------------------------------------------------ bounds

\* Bytes of memory mapped at the table's address in the validation scenario.
MemSize == 48

\* Bytes of physical memory in the peek scenario.
PhysSize == 40

\* Calls of peek_at_sdt_header in one run of the peek scenario.
MaxCalls == 3

\* ------------------------------------------------------------- byte helpers

\* u8
Byte == 0..255

\* u8::MAX, the largest revision and the largest MIN_REVISION
RevisionMax == 255

\* i mod 256, the value a u8 keeps
Wrap8(i) == i % 256

\* u8::wrapping_add
wrapping_add(a, b) == Wrap8(a + b)

\* The n bytes at offset off (0-based) of the byte sequence h.
Field(h, off, n) == SubSeq(h, off + 1, off + n)

\* A u32 as stored in memory (little-endian, as on every ACPI platform).
U32Bytes(n) ==
    << n % 256, (n \div 256) % 256, (n \div 65536) % 256, (n \div 16777216) % 256 >>

\* The u32 read from 4 bytes of memory. The model's integers end at 2^31 - 1:
\* a larger u32 is read as 2^31 - 1, which like it is larger than any size of
\* mapped memory and any offset the model compares it with.
U32Value(bs) ==
    IF bs[4] >= 128 THEN 2147483647
    ELSE bs[1] + 256 * bs[2] + 65536 * bs[3] + 16777216 * bs[4]

\* core::str::from_utf8(bs).is_ok(): the well-formed byte sequences of UTF-8
\* (no overlong forms, no surrogates, nothing above U+10FFFF, no truncation).
RECURSIVE Utf8ValidFrom(_, _)
Utf8ValidFrom(bs, i) ==
    IF i > Len(bs) THEN TRUE
    ELSE LET b == bs[i]
             In(k, lo, hi) == i + k <= Len(bs) /\ bs[i + k] \in lo..hi
             Cont(k) == In(k, 128, 191)
         IN  IF b < 128 THEN Utf8ValidFrom(bs, i + 1)
             ELSE IF b \in 194..223 THEN Cont(1) /\ Utf8ValidFrom(bs, i + 2)
             ELSE IF b = 224 THEN In(1, 160, 191) /\ Cont(2) /\ Utf8ValidFrom(bs, i + 3)
             ELSE IF b \in 225..236 \/ b \in 238..239
                  THEN Cont(1) /\ Cont(2) /\ Utf8ValidFrom(bs, i + 3)
             ELSE IF b = 237 THEN In(1, 128, 159) /\ Cont(2) /\ Utf8ValidFrom(bs, i + 3)
             ELSE IF b = 240
                  THEN In(1, 144, 191) /\ Cont(2) /\ Cont(3) /\ Utf8ValidFrom(bs, i + 4)
             ELSE IF b \in 241..243
                  THEN Cont(1) /\ Cont(2) /\ Cont(3) /\ Utf8ValidFrom(bs, i + 4)
             ELSE IF b = 244
                  THEN In(1, 128, 143) /\ Cont(2) /\ Cont(3) /\ Utf8ValidFrom(bs, i + 4)
             ELSE FALSE

from_utf8_is_ok(bs) == Utf8ValidFrom(bs, 1)

\* ------------------------------------------------------------- SdtHeader

\* mem::size_of::<SdtHeader>(): 4 + 4 + 1 + 1 + 6 + 8 + 4 + 4 + 4, no padding
HeaderSize == 36

SignatureOffset == 0
LengthOffset == 4
RevisionOffset == 8
ChecksumOffset == 9
OemIdOffset == 10
OemTableIdOffset == 16
OemRevisionOffset == 24

SignatureSize == 4
LengthSize == 4
OemIdSize == 6
OemTableIdSize == 8

\* The fields of the header that starts at offset 0 of h.
SdtHeader_signature(h) == Field(h, SignatureOffset, SignatureSize)
SdtHeader_length(h) == U32Value(Field(h, LengthOffset, LengthSize))
SdtHeader_revision(h) == h[RevisionOffset + 1]
SdtHeader_checksum(h) == h[ChecksumOffset + 1]
SdtHeader_oem_id(h) == Field(h, OemIdOffset, OemIdSize)
SdtHeader_oem_table_id(h) == Field(h, OemTableIdOffset, OemTableIdSize)

\* Signature constants
RSDT == << 82, 83, 68, 84 >>
XSDT == << 88, 83, 68, 84 >>
FADT == << 70, 65, 67, 80 >>
HPET == << 72, 80, 69, 84 >>
MADT == << 65, 80, 73, 67 >>
MCFG == << 77, 67, 70, 71 >>
SSDT == << 83, 83, 68, 84 >>

\* Result<(), AcpiError>
Ok == "Ok"
SdtInvalidSignature == "SdtInvalidSignature"
SdtInvalidOemId == "SdtInvalidOemId"
SdtInvalidTableId == "SdtInvalidTableId"
SdtInvalidChecksum == "SdtInvalidChecksum"

\* The checksum loop of validate: for i in 0..n, sum = sum.wrapping_add(byte i).
\* ChecksumLoop(h, lo, hi) is what the iterations i = lo..hi-1 add to sum;
\* wrapping_add is associative, so the iterations are summed in halves (which
\* keeps the evaluation shallow) with the result of summing them in order.
RECURSIVE ChecksumLoop(_, _, _)
ChecksumLoop(h, lo, hi) ==
    IF hi <= lo THEN 0
    ELSE IF hi = lo + 1 THEN wrapping_add(0, h[lo + 1])
    ELSE LET mid == (lo + hi) \div 2
         IN  wrapping_add(ChecksumLoop(h, lo, mid), ChecksumLoop(h, mid, hi))

\* The value of sum after the loop over 0..n. The bytes at offsets
\* 0..Len(h)-1 are the mapped memory; a read at a larger offset is out of
\* bounds, so what it yields is not determined by the program: oob is the
\* wrapped sum of everything read out of bounds.
ChecksumSum(h, n, oob) ==
    IF n > Len(h) THEN wrapping_add(ChecksumLoop(h, 0, Len(h)), oob)
    ELSE ChecksumLoop(h, 0, n)

\* The plain (unbounded) sum of the bytes of h at offsets lo..hi-1.
RECURSIVE ByteSumFrom(_, _, _)
ByteSumFrom(h, lo, hi) ==
    IF hi <= lo THEN 0
    ELSE IF hi = lo + 1 THEN h[lo + 1]
    ELSE LET mid == (lo + hi) \div 2
         IN  ByteSumFrom(h, lo, mid) + ByteSumFrom(h, mid, hi)

\* The plain sum of the first n bytes of h.
ByteSum(h, n) == ByteSumFrom(h, 0, n)

\* Variants of validate with one slip each.
\* The sum is kept in a wider integer and never truncated to 8 bits.
validate_sum_not_wrapped(h, signature, oob) ==
    IF SdtHeader_signature(h) # signature THEN SdtInvalidSignature
    ELSE IF ~from_utf8_is_ok(SdtHeader_oem_id(h)) THEN SdtInvalidOemId
    ELSE IF ~from_utf8_is_ok(SdtHeader_oem_table_id(h)) THEN SdtInvalidTableId
    ELSE IF ByteSumFrom(h, 0, IF SdtHeader_length(h) > Len(h) THEN Len(h)
                              ELSE SdtHeader_length(h)) + oob > 0
         THEN SdtInvalidChecksum
    ELSE Ok

\* The signature is checked last.
validate_signature_last(h, signature, oob) ==
    IF ~from_utf8_is_ok(SdtHeader_oem_id(h)) THEN SdtInvalidOemId
    ELSE IF ~from_utf8_is_ok(SdtHeader_oem_table_id(h)) THEN SdtInvalidTableId
    ELSE IF ChecksumSum(h, SdtHeader_length(h), oob) > 0 THEN SdtInvalidChecksum
    ELSE IF SdtHeader_signature(h) # signature THEN SdtInvalidSignature
    ELSE Ok

\* The OEM table id is checked before the OEM id.
validate_table_id_first(h, signature, oob) ==
    IF SdtHeader_signature(h) # signature THEN SdtInvalidSignature
    ELSE IF ~from_utf8_is_ok(SdtHeader_oem_table_id(h)) THEN SdtInvalidTableId
    ELSE IF ~from_utf8_is_ok(SdtHeader_oem_id(h)) THEN SdtInvalidOemId
    ELSE IF ChecksumSum(h, SdtHeader_length(h), oob) > 0 THEN SdtInvalidChecksum
    ELSE Ok

\* The sum is compared as a signed 8-bit value: 128..255 are negative.
validate_signed_sum(h, signature, oob) ==
    IF SdtHeader_signature(h) # signature THEN SdtInvalidSignature
    ELSE IF ~from_utf8_is_ok(SdtHeader_oem_id(h)) THEN SdtInvalidOemId
    ELSE IF ~from_utf8_is_ok(SdtHeader_oem_table_id(h)) THEN SdtInvalidTableId
    ELSE IF ChecksumSum(h, SdtHeader_length(h), oob) \in 1..127 THEN SdtInvalidChecksum
    ELSE Ok

\* The OEM id is not checked.
validate_oem_id_unchecked(h, signature, oob) ==
    IF SdtHeader_signature(h) # signature THEN SdtInvalidSignature
    ELSE IF ~from_utf8_is_ok(SdtHeader_oem_table_id(h)) THEN SdtInvalidTableId
    ELSE IF ChecksumSum(h, SdtHeader_length(h), oob) > 0 THEN SdtInvalidChecksum
    ELSE Ok

\* The loop runs over the header's size instead of the table's length.
validate_sums_header_only(h, signature, oob) ==
    IF SdtHeader_signature(h) # signature THEN SdtInvalidSignature
    ELSE IF ~from_utf8_is_ok(SdtHeader_oem_id(h)) THEN SdtInvalidOemId
    ELSE IF ~from_utf8_is_ok(SdtHeader_oem_table_id(h)) THEN SdtInvalidTableId
    ELSE IF ChecksumSum(h, HeaderSize, oob) > 0 THEN SdtInvalidChecksum
    ELSE Ok

\* SdtHeader::validate
validate(h, signature, oob) ==
    IF SdtHeader_signature(h) # signature THEN SdtInvalidSignature
    ELSE IF ~from_utf8_is_ok(SdtHeader_oem_id(h)) THEN SdtInvalidOemId
    ELSE IF ~from_utf8_is_ok(SdtHeader_oem_table_id(h)) THEN SdtInvalidTableId
    ELSE IF ChecksumSum(h, SdtHeader_length(h), oob) > 0 THEN SdtInvalidChecksum
    ELSE Ok

\* The outcome of a text accessor: the text (a str is its UTF-8 bytes), or a
\* panic of unwrap().
Panic == "Panic"
Str == "Str"
unwrap_from_utf8(bs) ==
    IF from_utf8_is_ok(bs) THEN [res |-> Str, text |-> bs]
    ELSE [res |-> Panic, text |-> << >>]

\* SdtHeader::oem_id
oem_id(h) == unwrap_from_utf8(SdtHeader_oem_id(h))

\* SdtHeader::oem_table_id
oem_table_id(h) == unwrap_from_utf8(SdtHeader_oem_table_id(h))

\* ------------------------------------------------------------------ state

VARIABLES
    mem,        \* validation scenario: the memory mapped at the table's address
    ret,        \* validation scenario: the last call on the header and its outcome
    validated,  \* validation scenario: validate has succeeded on the bytes of mem
    flip,       \* validation scenario: whether a byte was changed since, and its offset
    before,     \* validation scenario: what mem validated for, and its length, before the change
    phys,       \* peek scenario: the physical memory
    handler,    \* peek scenario: the mapping capability (a recording test double)
    peeked,     \* peek scenario: the last call's address and returned header
    calls,      \* peek scenario: calls of peek_at_sdt_header so far
    field,      \* field scenario: an ExtendedField (MIN_REVISION and its slot)
    accessed    \* field scenario: the last access's revision and result

vars == << mem, ret, validated, flip, before, phys, handler, peeked, calls,
           field, accessed >>

validateVars == << mem, ret, validated, flip, before >>
peekVars == << phys, handler, peeked, calls >>
fieldVars == << field, accessed >>

NoFlip == [done |-> FALSE, pos |-> 0]
NoSignature == << >>
NoBefore == [sig |-> NoSignature, length |-> 0]
NoRet == [op |-> "none", sig |-> NoSignature, res |-> "none", text |-> << >>]
NoPeek == [called |-> FALSE, address |-> 0, header |-> << >>]
NoAccess == [called |-> FALSE, revision |-> 0, some |-> FALSE, val |-> 0]

\* The scenarios that are not running keep their variables at these values.
ValidateIdle ==
    /\ mem = << >>
    /\ ret = NoRet
    /\ validated = FALSE
    /\ flip = NoFlip
    /\ before = NoBefore

PeekIdle ==
    /\ phys = << >>
    /\ handler = [live |-> {}, log |-> << >>, maps |-> 0, unmaps |-> 0]
    /\ peeked = NoPeek
    /\ calls = 0

FieldIdle ==
    /\ field = [MIN_REVISION |-> 0, init |-> FALSE, stored |-> 0]
    /\ accessed = NoAccess

\* ------------------------------------------------- the validation scenario

Min(a, b) == IF a <= b THEN a ELSE b

\* "INTEL ", an oem_id with a two-byte character, and two that are not text:
\* a byte that never occurs in UTF-8, and a character cut off by the field's end.
OemIdIntel == << 73, 78, 84, 69, 76, 32 >>
OemIds ==
    { OemIdIntel,
      << 195, 169, 32, 32, 32, 32 >>,
      << 255, 78, 84, 69, 76, 32 >>,
      << 73, 78, 84, 69, 76, 195 >> }

\* "TESTTBL1", an oem_table_id with a three-byte character, and one holding a
\* continuation byte with no lead byte.
OemTableIdTest == << 84, 69, 83, 84, 84, 66, 76, 49 >>
OemTableIds ==
    { OemTableIdTest,
      << 226, 130, 172, 32, 32, 32, 32, 32 >>,
      << 84, 69, 83, 84, 128, 66, 76, 49 >> }

\* Values of the length field: an empty table, one that ends inside the
\* header, a bare header, the 44-byte table of the end-to-end example, and a
\* table longer than the memory mapped for it.
Lengths == { 0, 10, HeaderSize, 44, 300 }

\* The signatures a caller validates against, and the tables carry.
Signatures == { MADT, FADT }

\* The bytes after oem_table_id: multiples of a step.
Fills == { 7, 255 }

\* Bytes a single byte of the table is changed to.
FlipBytes == { 0, 65, 195, 255 }

\* A table of MemSize bytes. The checksum byte makes the first len bytes sum to
\* 0 modulo 256 when fix, and to 1 otherwise (when the sum covers it at all).
RawTable(sig, len, oem, tid, fill) ==
    [i \in 1..MemSize |->
        LET off == i - 1
        IN  IF off < LengthOffset THEN sig[off + 1]
            ELSE IF off < RevisionOffset THEN U32Bytes(len)[off - LengthOffset + 1]
            ELSE IF off = RevisionOffset THEN 1
            ELSE IF off = ChecksumOffset THEN 0
            ELSE IF off < OemTableIdOffset THEN oem[off - OemIdOffset + 1]
            ELSE IF off < OemRevisionOffset THEN tid[off - OemTableIdOffset + 1]
            ELSE (fill * i) % 256]

MkTable(sig, len, oem, tid, fill, fix) ==
    LET raw == RawTable(sig, len, oem, tid, fill)
        rest == ByteSum(raw, Min(len, MemSize)) % 256
        cks == ((256 - rest) + (IF fix THEN 0 ELSE 1)) % 256
    IN  [raw EXCEPT ![ChecksumOffset + 1] = cks]

InitTables ==
    { MkTable(sig, len, oem, tid, fill, fix) :
        sig \in Signatures, len \in Lengths, oem \in OemIds, tid \in OemTableIds,
        fill \in Fills, fix \in BOOLEAN }

InitValidate ==
    /\ mem \in InitTables
    /\ ret = NoRet
    /\ validated = FALSE
    /\ flip = NoFlip
    /\ before = NoBefore
    /\ PeekIdle
    /\ FieldIdle

\* What the reads of validate beyond the mapped memory can add up to: any
\* byte. Two values stand for the 256: c, which makes the whole sum 0, and
\* c + 1, which like every value other than c makes it nonzero.
OutOfBounds(h) ==
    IF SdtHeader_length(h) > Len(h)
    THEN LET c == (256 - (ByteSum(h, Len(h)) % 256)) % 256
         IN  { c, (c + 1) % 256 }
    ELSE { 0 }

\* A call of header.validate(signature).
Validate ==
    \E signature \in Signatures, oob \in OutOfBounds(mem) :
        LET r == validate(mem, signature, oob)
        IN  /\ ret' = [op |-> "validate", sig |-> signature, res |-> r, text |-> << >>]
            /\ validated' = (validated \/ r = Ok)
            /\ UNCHANGED << mem, flip, before, peekVars, fieldVars >>

\* A call of header.oem_id().
OemId ==
    LET r == oem_id(mem)
    IN  /\ ret' = [op |-> "oem_id", sig |-> NoSignature, res |-> r.res, text |-> r.text]
        /\ UNCHANGED << mem, validated, flip, before, peekVars, fieldVars >>

\* A call of header.oem_table_id().
OemTableId ==
    LET r == oem_table_id(mem)
    IN  /\ ret' = [op |-> "oem_table_id", sig |-> NoSignature, res |-> r.res,
                   text |-> r.text]
        /\ UNCHANGED << mem, validated, flip, before, peekVars, fieldVars >>

\* The environment: exactly one byte of a table that has just validated, at an
\* offset within the table's length, is changed.
FlipByte ==
    /\ flip = NoFlip
    /\ ret.op = "validate"
    /\ ret.res = Ok
    /\ \E pos \in 0..(Min(SdtHeader_length(mem), Len(mem)) - 1), b \in FlipBytes :
        /\ b # mem[pos + 1]
        /\ mem' = [mem EXCEPT ![pos + 1] = b]
        /\ flip' = [done |-> TRUE, pos |-> pos]
    /\ before' = [sig |-> ret.sig, length |-> SdtHeader_length(mem)]
    /\ ret' = NoRet
    /\ validated' = FALSE
    /\ UNCHANGED << peekVars, fieldVars >>

NextValidate == Validate \/ OemId \/ OemTableId \/ FlipByte

SpecValidate == InitValidate /\ [][NextValidate]_vars

\* ------------------------------------------------------- the peek scenario

\* AcpiHandler::map_physical_region::<T>(physical_address, size): the handler
\* maps the region and hands out a PhysicalMapping for it. The handler is a
\* test double: it records the calls made to it, and the reads made through
\* the mappings it handed out.
map_physical_region(hs, physical_address, size) ==
    LET m == [physical_start |-> physical_address, region_length |-> size,
              id |-> hs.maps + 1]
    IN  [handler |-> [hs EXCEPT !.live = @ \cup { m },
                                !.log = Append(@, [call |-> "map", mapping |-> m]),
                                !.maps = @ + 1],
         mapping |-> m]

\* Drop for PhysicalMapping: the handle's release, AcpiHandler::unmap_physical_region.
drop_mapping(hs, m) ==
    [hs EXCEPT !.live = @ \ { m },
               !.log = Append(@, [call |-> "unmap", mapping |-> m]),
               !.unmaps = @ + 1]

\* (*mapping).clone(): the size_of::<SdtHeader>() bytes at the start of the
\* mapped region, copied out. A byte read through a mapping that is no longer
\* live, or beyond the mapped region, is whatever the platform has there: junk.
clone_header(hs, m, memory, junk) ==
    [handler |-> [hs EXCEPT !.log = Append(@, [call |-> "read", mapping |-> m])],
     header |-> [i \in 1..HeaderSize |->
                    IF m \in hs.live /\ i <= m.region_length
                       /\ m.physical_start + i <= Len(memory)
                    THEN memory[m.physical_start + i]
                    ELSE junk[i]]]

\* Variants of peek_at_sdt_header with one slip each.
\* The mapping is never dropped (it is forgotten, or handed on).
peek_leaks_mapping(hs, memory, physical_address, junk) ==
    LET mapped == map_physical_region(hs, physical_address, HeaderSize)
        cloned == clone_header(mapped.handler, mapped.mapping, memory, junk)
    IN  [handler |-> cloned.handler, header |-> cloned.header]

\* The size mapped is that of the signature, not of the header.
peek_maps_signature_only(hs, memory, physical_address, junk) ==
    LET mapped == map_physical_region(hs, physical_address, SignatureSize)
        cloned == clone_header(mapped.handler, mapped.mapping, memory, junk)
        dropped == drop_mapping(cloned.handler, mapped.mapping)
    IN  [handler |-> dropped, header |-> cloned.header]

\* peek_at_sdt_header: map, clone, and the drop of `mapping` at the end of scope.
peek_at_sdt_header(hs, memory, physical_address, junk) ==
    LET mapped == map_physical_region(hs, physical_address, HeaderSize)
        cloned == clone_header(mapped.handler, mapped.mapping, memory, junk)
        dropped == drop_mapping(cloned.handler, mapped.mapping)
    IN  [handler |-> dropped, header |-> cloned.header]

\* The addresses at which a whole header lies in the physical memory.
Addresses == 0..(PhysSize - HeaderSize)

\* Contents of the physical memory: byte patterns (most of them no valid
\* table), and the start of the 44-byte MADT of the end-to-end example.
PatternImage(a, b) == [i \in 1..PhysSize |-> (a * i + b) % 256]
TableImage(t) == [i \in 1..PhysSize |-> IF i <= Len(t) THEN t[i] ELSE 0]
PhysImages ==
    { PatternImage(a, b) : a \in { 1, 7 }, b \in { 0, 200 } }
        \cup { TableImage(MkTable(MADT, 44, OemIdIntel, OemTableIdTest, 7, fix)) :
                 fix \in BOOLEAN }

\* What a read that the mapping does not cover may yield.
JunkHeaders == { [i \in 1..HeaderSize |-> 0], [i \in 1..HeaderSize |-> 255] }

InitPeek ==
    /\ phys \in PhysImages
    /\ handler = [live |-> {}, log |-> << >>, maps |-> 0, unmaps |-> 0]
    /\ peeked = NoPeek
    /\ calls = 0
    /\ ValidateIdle
    /\ FieldIdle

\* A call of peek_at_sdt_header(&handler, physical_address).
Peek ==
    /\ calls < MaxCalls
    /\ \E physical_address \in Addresses, junk \in JunkHeaders :
        LET r == peek_at_sdt_header(handler, phys, physical_address, junk)
        IN  /\ handler' = r.handler
            /\ peeked' = [called |-> TRUE, address |-> physical_address,
                          header |-> r.header]
    /\ calls' = calls + 1
    /\ UNCHANGED << phys, validateVars, fieldVars >>

NextPeek == Peek

SpecPeek == InitPeek /\ [][NextPeek]_vars

\* ------------------------------------------------------ the field scenario

\* Option<T>
None == [some |-> FALSE, val |-> 0]
Some(v) == [some |-> TRUE, val |-> v]

\* A variant of access with one slip: the comparison is strict.
access_strictly_greater(f, revision, junk) ==
    IF revision > f.MIN_REVISION
    THEN Some(IF f.init THEN f.stored ELSE junk)
    ELSE None

\* ExtendedField::access. f.init says whether the firmware wrote the slot;
\* assume_init() of a slot that was never written yields an undetermined value.
access(f, revision, junk) ==
    IF revision >= f.MIN_REVISION
    THEN Some(IF f.init THEN f.stored ELSE junk)
    ELSE None

\* u8
Revisions == 0..RevisionMax

\* Values of T.
FieldValues == { 1, 2 }

InitField ==
    /\ field \in [MIN_REVISION : Revisions, init : { TRUE }, stored : FieldValues]
                 \cup [MIN_REVISION : Revisions, init : { FALSE }, stored : { 0 }]
    /\ accessed = NoAccess
    /\ ValidateIdle
    /\ PeekIdle

\* A call of field.access(revision). A run makes one: access leaves the
\* field as it is, so a later call does what the first call of another run does.
Access ==
    /\ ~accessed.called
    /\ \E revision \in Revisions, junk \in FieldValues :
        LET r == access(field, revision, junk)
        IN  accessed' = [called |-> TRUE, revision |-> revision,
                         some |-> r.some, val |-> r.val]
    /\ UNCHANGED << field, validateVars, peekVars >>

NextField == Access

SpecField == InitField /\ [][NextField]_vars

\* ------------------------------------------------------------- the claims

\* What the claims say of the header in mem, read from the byte layout.
SignatureMatches == SubSeq(mem, 1, 4) = ret.sig
OemIdIsText == from_utf8_is_ok(SubSeq(mem, 11, 16))
OemTableIdIsText == from_utf8_is_ok(SubSeq(mem, 17, 24))
WholeTableMapped == SdtHeader_length(mem) <= Len(mem)
TableSum == ByteSum(mem, SdtHeader_length(mem))
ChecksumCorrect == WholeTableMapped /\ TableSum % 256 = 0
ChecksumWrong == WholeTableMapped /\ TableSum % 256 # 0
ValidateCalled == ret.op = "validate"

\* The 44-byte MADT of the end-to-end example, in the mapped memory.
ExampleMadt == MkTable(MADT, 44, OemIdIntel, OemTableIdTest, 7, TRUE)

\* C1, as stated: a header (of a table at least a header long) with the
\* expected signature and a correct checksum validates, whatever its other
\* fields hold, oem_id and oem_table_id included.
C1_AnyOemValidates ==
    (ValidateCalled /\ SignatureMatches /\ ChecksumCorrect
        /\ SdtHeader_length(mem) >= 36) => ret.res = Ok

\* C1, amended: a header with the expected signature, a correct checksum and
\* an oem_id and an oem_table_id that are valid text validates, whatever its
\* other fields hold.
C1_TextOemValidates ==
    (ValidateCalled /\ SignatureMatches /\ ChecksumCorrect
        /\ OemIdIsText /\ OemTableIdIsText) => ret.res = Ok

C1_Witness ==
    /\ ValidateCalled
    /\ mem = ExampleMadt
    /\ ret.sig = MADT
    /\ ret.res = Ok

\* C2: a header whose signature differs from the expected one fails with
\* InvalidSignature, whatever else is wrong with the table.
C2_SignatureDecidesFirst ==
    (ValidateCalled /\ ~SignatureMatches) => ret.res = SdtInvalidSignature

C2_Witness ==
    /\ ValidateCalled
    /\ ~SignatureMatches
    /\ ~OemIdIsText
    /\ ~OemTableIdIsText
    /\ ChecksumWrong
    /\ ret.res = SdtInvalidSignature

\* C3: validate reports the first failing check in the order signature,
\* oem_id, oem_table_id, checksum.
C3_FirstFailingCheck ==
    ValidateCalled =>
        /\ (SignatureMatches /\ ~OemIdIsText) => ret.res = SdtInvalidOemId
        /\ (SignatureMatches /\ OemIdIsText /\ ~OemTableIdIsText)
              => ret.res = SdtInvalidTableId
        /\ ret.res = SdtInvalidChecksum
              => (SignatureMatches /\ OemIdIsText /\ OemTableIdIsText)

C3_Witness ==
    /\ ValidateCalled
    /\ SignatureMatches
    /\ ~OemIdIsText
    /\ ~OemTableIdIsText
    /\ ChecksumWrong
    /\ ret.res = SdtInvalidOemId

\* validate is called, with the signature the table validated for, after one
\* byte of the table was changed.
ValidateAfterFlip == flip.done /\ ValidateCalled /\ ret.sig = before.sig

\* C4, as stated: after exactly one byte within the length of a table (one
\* that is wholly mapped and at least a header long) has changed, at any
\* offset, validate fails with InvalidChecksum.
C4_AnyFlipIsChecksumError ==
    (ValidateAfterFlip /\ before.length >= 36 /\ before.length <= Len(mem))
        => ret.res = SdtInvalidChecksum

\* C4, amended: after exactly one byte of a wholly mapped table that had
\* validated has changed, validate fails with InvalidSignature when the byte
\* lies in the signature, and with InvalidChecksum when it lies after the
\* length field and oem_id and oem_table_id are still valid text.
C4_FlipIsDetected ==
    ValidateAfterFlip =>
        /\ flip.pos < 4 => ret.res = SdtInvalidSignature
        /\ (flip.pos >= 8 /\ WholeTableMapped /\ OemIdIsText /\ OemTableIdIsText)
              => ret.res = SdtInvalidChecksum

C4_Witness ==
    /\ ValidateAfterFlip
    /\ flip.pos = 43
    /\ WholeTableMapped
    /\ ret.res = SdtInvalidChecksum

\* C8: every header that validate accepts has a length of at least the
\* header's size, 36.
C8_AcceptedLengthCoversHeader ==
    (ValidateCalled /\ ret.res = Ok) => SdtHeader_length(mem) >= 36

\* C9: once validate has succeeded on the header, oem_id and oem_table_id do
\* not panic and return the header's 6 and 8 bytes as text; they panic only
\* on a header on which validate has not succeeded.
C9_AccessorsAfterValidate ==
    /\ (ret.op = "oem_id" /\ validated)
          => (ret.res = Str /\ ret.text = SubSeq(mem, 11, 16))
    /\ (ret.op = "oem_table_id" /\ validated)
          => (ret.res = Str /\ ret.text = SubSeq(mem, 17, 24))
    /\ (ret.op \in { "oem_id", "oem_table_id" } /\ ret.res = Panic) => ~validated

C9_Witness ==
    /\ validated
    /\ mem = ExampleMadt
    /\ ret.op = "oem_id"
    /\ ret.text = << 73, 78, 84, 69, 76, 32 >>

\* C10: when the three earlier checks pass and the table is wholly mapped,
\* validate returns Ok if the bytes at offsets 0..length-1 sum to 0 modulo 256
\* and InvalidChecksum if not; no other byte takes part.
C10_ChecksumRule ==
    (ValidateCalled /\ SignatureMatches /\ OemIdIsText /\ OemTableIdIsText
        /\ WholeTableMapped)
        => ret.res = (IF TableSum % 256 = 0 THEN Ok ELSE SdtInvalidChecksum)

\* A table accepted whose bytes sum to more than 255, and whose mapped memory
\* as a whole (the bytes after the table's length included) does not sum to 0.
C10_Witness ==
    /\ ValidateCalled
    /\ ret.res = Ok
    /\ WholeTableMapped
    /\ TableSum > 255
    /\ SdtHeader_length(mem) < Len(mem)
    /\ ByteSum(mem, Len(mem)) % 256 # 0

\* The three entries the k-th call left in the handler's record.
CallLog(k) == SubSeq(handler.log, 3 * k - 2, 3 * k)

\* C5: every call of peek_at_sdt_header maps once, reads, and releases that
\* mapping before it returns; after any number of calls no mapping is live.
C5_MappingReleased ==
    /\ handler.live = {}
    /\ handler.maps = calls
    /\ handler.unmaps = calls
    /\ Len(handler.log) = 3 * calls
    /\ \A k \in 1..calls :
        /\ CallLog(k)[1].call = "map"
        /\ CallLog(k)[2].call = "read"
        /\ CallLog(k)[3].call = "unmap"
        /\ CallLog(k)[2].mapping = CallLog(k)[1].mapping
        /\ CallLog(k)[3].mapping = CallLog(k)[1].mapping

C5_Witness ==
    /\ calls >= 2
    /\ peeked.called
    /\ handler.unmaps = calls
    /\ handler.live = {}

\* C6: peek_at_sdt_header maps exactly 36 bytes at exactly the address given
\* and returns the 36 bytes at that address, whatever they are.
C6_PeekReturnsHeaderBytes ==
    peeked.called =>
        /\ peeked.header = SubSeq(phys, peeked.address + 1, peeked.address + 36)
        /\ CallLog(calls)[1].call = "map"
        /\ CallLog(calls)[1].mapping.physical_start = peeked.address
        /\ CallLog(calls)[1].mapping.region_length = 36

\* A header returned from a nonzero address whose oem_id is not valid text.
C6_Witness ==
    /\ peeked.called
    /\ peeked.address > 0
    /\ peeked.header = SubSeq(phys, peeked.address + 1, peeked.address + 36)
    /\ ~from_utf8_is_ok(SubSeq(peeked.header, 11, 16))

\* C7: access(revision) returns the stored value when revision >=
\* MIN_REVISION and an empty result otherwise, for every MIN_REVISION and
\* every revision in 0..255.
C7_AccessGate ==
    accessed.called =>
        /\ accessed.revision >= field.MIN_REVISION => accessed.some
        /\ (accessed.revision >= field.MIN_REVISION /\ field.init)
              => accessed.val = field.stored
        /\ accessed.revision < field.MIN_REVISION => ~accessed.some

\* The stored value returned at the upper end of the range.
C7_Witness ==
    /\ accessed.called
    /\ field.init
    /\ field.MIN_REVISION = 255
    /\ accessed.revision = field.MIN_REVISION
    /\ accessed.some
    /\ accessed.val = field.stored

====
